---- MODULE Spec2Model ----
(***************************************************************************)
(* Model of the Torno feature store (src/src/torno/core.py, store.py):     *)
(* schema validation, content-addressed enrichment versions, the catalog   *)
(* of enrichment definitions and the job records of FeatureStore.          *)
(*                                                                         *)
(* Encoding conventions                                                    *)
(*   Optional[T]  : <<>> is None, <<x>> is the value x                     *)
(*   dict         : sequence of <<key, value>> pairs in insertion order    *)
(*   Python value : [kind |-> type name, v |-> integer payload]            *)
(*   str ids      : sequences of digits (<<>> is the empty string)         *)
(***************************************************************************)
EXTENDS Integers, Sequences, FiniteSets, TLC

VARIABLES enrichments, jobs, features, nextJob, now, steps, call, ret, callers

vars == <<enrichments, jobs, features, nextJob, now, steps, call, ret, callers>>

(***************************************************************************)
(* Bounds                                                                  *)
(***************************************************************************)
MaxDataLen == 2
MaxSteps == 5
MaxTime == 2
MaxCallers == 2

(***************************************************************************)
(* Optional values and dicts                                               *)
(***************************************************************************)
None == <<>>
Some(x) == <<x>>
IsNone(o) == Len(o) = 0
Unwrap(o) == o[1]

EmptyDict == <<>>
DictKeys(d) == {d[i][1] : i \in DOMAIN d}
DictGet(d, k) == d[CHOOSE i \in DOMAIN d : d[i][1] = k][2]

Min(S) == CHOOSE m \in S : \A n \in S : m <= n

(***************************************************************************)
(* Python values                                                           *)
(***************************************************************************)
Val(kind, v) == [kind |-> kind, v |-> v]
StrHello == Val("str", 1)
Str5 == Val("str", 5)
Int5 == Val("int", 5)
Int9 == Val("int", 9)
IntNeg1 == Val("int", -1)
Int0 == Val("int", 0)
BoolTrue == Val("bool", 1)
BoolFalse == Val("bool", 0)
ListPoints == Val("list", 1)

\* eval(expected_type): the kinds of value that are instances of the class
\* the type tag names (bool is a subclass of int in Python).
EvalType(tag) ==
  CASE tag = "str" -> {"str"}
    [] tag = "int" -> {"int", "bool"}
    [] tag = "float" -> {"float"}
    [] tag = "bool" -> {"bool"}
    [] tag = "list" -> {"list"}
    [] tag = "dict" -> {"dict"}

\* isinstance without the subclass relation: every kind distinct
IsInstanceExact(value, tag) == value.kind = tag

IsInstance(value, tag) == value.kind \in EvalType(tag)

\* The validator predicates the schemas carry, by name.
\*   positive : lambda x: x > 0 if x is not None else True   (tests/conftest.py)
\*   nonzero  : lambda x: x        (a predicate answering with a truthy or
\*                                  falsy value instead of a bool)
ApplyValidator(name, value) ==
  CASE name = "positive" ->
         IF value.kind = "NoneType" THEN BoolTrue
         ELSE IF value.v > 0 THEN BoolTrue ELSE BoolFalse
    [] name = "nonzero" -> value

(***************************************************************************)
(* Schema.validate                                                         *)
(***************************************************************************)
MkSchema(fields, validators, required) ==
  [fields |-> fields, validators |-> validators, required |-> required]

Raised(exc, msg, field, tc, vc) ==
  [outcome |-> msg, exc |-> exc, field |-> field,
   typeChecks |-> tc, validatorCalls |-> vc]

Returned(tc, vc) ==
  [outcome |-> "ok", exc |-> "none", field |-> "none",
   typeChecks |-> tc, validatorCalls |-> vc]

\* for required_field in self.required: if required_field not in data: raise
FirstMissing(schema, data) ==
  LET missing == {i \in DOMAIN schema.required :
                    schema.required[i] \notin DictKeys(data)}
  IN IF missing = {} THEN 0 ELSE Min(missing)

\* for field_name, value in data.items(): ... (items i..Len(data)), counting
\* the isinstance checks (tc) and validator calls (vc) evaluated so far.
RECURSIVE ValidateItems(_, _, _, _, _)
\* the items loop without the unknown-key check: undeclared keys are skipped
ValidateItemsOpen(schema, data, i, tc, vc) ==
  IF i > Len(data) THEN Returned(tc, vc)
  ELSE
    LET field_name == data[i][1]
        value == data[i][2]
    IN IF field_name \notin DictKeys(schema.fields)
       THEN ValidateItems(schema, data, i + 1, tc, vc)
       ELSE IF ~IsInstance(value, DictGet(schema.fields, field_name))
       THEN Raised("TypeError", "Type mismatch", field_name, tc + 1, vc)
       ELSE IF field_name \in DictKeys(schema.validators)
       THEN IF ApplyValidator(DictGet(schema.validators, field_name), value) = BoolFalse
            THEN Raised("ValueError", "Validation failed", field_name, tc + 1, vc + 1)
            ELSE ValidateItems(schema, data, i + 1, tc + 1, vc + 1)
       ELSE ValidateItems(schema, data, i + 1, tc + 1, vc)

ValidateItems(schema, data, i, tc, vc) ==
  IF i > Len(data) THEN Returned(tc, vc)
  ELSE
    LET field_name == data[i][1]
        value == data[i][2]
    IN IF field_name \notin DictKeys(schema.fields)
       THEN Raised("ValueError", "Unknown field", field_name, tc, vc)
       ELSE IF ~IsInstance(value, DictGet(schema.fields, field_name))
       THEN Raised("TypeError", "Type mismatch", field_name, tc + 1, vc)
       ELSE IF field_name \in DictKeys(schema.validators)
       THEN IF ApplyValidator(DictGet(schema.validators, field_name), value) = BoolFalse
            THEN Raised("ValueError", "Validation failed", field_name, tc + 1, vc + 1)
            ELSE ValidateItems(schema, data, i + 1, tc + 1, vc + 1)
       ELSE ValidateItems(schema, data, i + 1, tc + 1, vc)

\* the per-item checks run before the required-field check
ValidateItemsFirst(schema, data) ==
  LET items == ValidateItems(schema, data, 1, 0, 0)
      m == FirstMissing(schema, data)
  IN IF items.outcome # "ok" THEN items
     ELSE IF m # 0
     THEN Raised("ValueError", "Missing required field", schema.required[m],
                 items.typeChecks, items.validatorCalls)
     ELSE items

Validate(schema, data) ==
  LET m == FirstMissing(schema, data)
  IN IF m # 0
     THEN Raised("ValueError", "Missing required field", schema.required[m], 0, 0)
     ELSE ValidateItems(schema, data, 1, 0, 0)

(***************************************************************************)
(* Schemas and payloads used as inputs                                     *)
(***************************************************************************)
TextLengthFields == << <<"text", "str">>, <<"length", "int">> >>
OutFields == << <<"key_points", "list">>, <<"summary", "str">> >>
\* the same dicts built in the other insertion order
Reverse(d) == [i \in 1..Len(d) |-> d[Len(d) + 1 - i]]
LengthTextFields == Reverse(TextLengthFields)

\* tests/conftest.py basic_schema
BasicSchema == MkSchema(TextLengthFields, << <<"length", "positive">> >>, <<"text">>)
\* same fields, nothing required, no validators
LooseSchema == MkSchema(LengthTextFields, EmptyDict, <<>>)
\* same fields, both required
StrictSchema == MkSchema(TextLengthFields, << <<"length", "positive">> >>, <<"length", "text">>)
\* tests/conftest.py sample_version_config output schema
OutSchema == MkSchema(OutFields, EmptyDict, <<"key_points">>)
OutLooseSchema == MkSchema(OutFields, EmptyDict, <<>>)

\* basic_schema with a validator that answers with the value itself
NonzeroSchema == MkSchema(TextLengthFields, << <<"length", "nonzero">> >>, <<"text">>)

Schemas == {BasicSchema, LooseSchema, StrictSchema, OutSchema, NonzeroSchema}

DataKeys == {"text", "length", "extra"}
DataValues == {StrHello, Str5, Int5, IntNeg1, Int0, BoolTrue}

\* dicts of at most MaxDataLen items, in every insertion order
DataDicts ==
  UNION {{d \in [1..n -> DataKeys \X DataValues] :
            \A i, j \in 1..n : i # j => d[i][1] # d[j][1]} : n \in 0..MaxDataLen}

(***************************************************************************)
(* EnrichmentVersion.create: content-addressed version identity            *)
(***************************************************************************)
Times == 1..MaxTime

\* alphabetical order of the dict keys in use (json.dumps(sort_keys=True))
KeyOrder == <<"extra", "key_points", "length", "max_tokens", "owner",
              "summary", "temperature", "text">>
KeyRank(k) == CHOOSE i \in DOMAIN KeyOrder : KeyOrder[i] = k

\* json.dumps(d) without sort_keys: the items in insertion order
SortKeysOmitted(d) == d

\* json.dumps(d, sort_keys=True) of a dict: its items in key order
SortKeys(d) ==
  LET n == Len(d)
      p == CHOOSE q \in [1..n -> 1..n] :
             /\ \A i, j \in 1..n : i # j => q[i] # q[j]
             /\ \A i, j \in 1..n : i < j => KeyRank(d[q[i]][1]) < KeyRank(d[q[j]][1])
  IN [i \in 1..n |-> d[p[i]]]

\* `x or {}` for an Optional[dict]
OrEmptyDict(o) == IF IsNone(o) THEN EmptyDict ELSE Unwrap(o)

SampleParams == << <<"temperature", Val("float", 7)>>, <<"max_tokens", Val("int", 150)>> >>
OwnerMeta == << <<"owner", StrHello>> >>

\* the texts a digest can be taken of, by component of the serialization
Prompts == <<"Extract key points from {text}", "Test prompt">>
ModelIds == <<"gpt-4", "test-model">>
ValueDictTexts == <<EmptyDict, SampleParams, Reverse(SampleParams), OwnerMeta>>
FieldDictTexts == <<TextLengthFields, LengthTextFields, OutFields, Reverse(OutFields)>>

IndexOf(seq, x) == CHOOSE i \in DOMAIN seq : seq[i] = x

\* hashlib.sha256(text).hexdigest()[:12]: the digest of the serialized
\* version_data as a digit string, distinct texts giving distinct digests
Sha256Hex12(text) ==
  <<IndexOf(Prompts, text.prompt), IndexOf(ModelIds, text.model),
    IndexOf(ValueDictTexts, text.params),
    IndexOf(FieldDictTexts, text.input_schema),
    IndexOf(FieldDictTexts, text.output_schema),
    IndexOf(ValueDictTexts, text.metadata)>>

\* json.dumps(version_data, sort_keys=True)
JsonDumpsSorted(version_data) ==
  [prompt |-> version_data.prompt, model |-> version_data.model,
   params |-> SortKeys(version_data.params),
   input_schema |-> SortKeys(version_data.input_schema),
   output_schema |-> SortKeys(version_data.output_schema),
   metadata |-> SortKeys(version_data.metadata)]

VersionData(config) ==
  [prompt |-> config.prompt, model |-> config.model, params |-> config.params,
   input_schema |-> config.input_schema.fields,
   output_schema |-> config.output_schema.fields,
   metadata |-> OrEmptyDict(config.metadata)]

VersionId(config) == Sha256Hex12(JsonDumpsSorted(VersionData(config)))

EnrichmentVersionCreate(config, t) ==
  [version_id |-> VersionId(config),
   created_at |-> t,
   prompt_template |-> config.prompt,
   model_id |-> config.model,
   parameters |-> config.params,
   input_schema |-> config.input_schema,
   output_schema |-> config.output_schema,
   metadata |-> OrEmptyDict(config.metadata)]

MkConfig(prompt, model, params, input_schema, output_schema, metadata) ==
  [prompt |-> prompt, model |-> model, params |-> params,
   input_schema |-> input_schema, output_schema |-> output_schema,
   metadata |-> metadata]

\* tests/conftest.py sample_version_config
CfgSample == MkConfig(Prompts[1], ModelIds[1], SampleParams, BasicSchema, OutSchema, None)
\* CfgSample with other required lists and validators, its dicts built in
\* the other insertion order, and metadata {}
CfgSampleLoose == MkConfig(Prompts[1], ModelIds[1], Reverse(SampleParams), LooseSchema,
                           OutLooseSchema, Some(EmptyDict))
\* tests/test_store.py test_create_version
CfgTest == MkConfig(Prompts[2], ModelIds[2], EmptyDict, BasicSchema, BasicSchema, None)
\* CfgTest with metadata
CfgTestOwned == MkConfig(Prompts[2], ModelIds[2], EmptyDict, BasicSchema, BasicSchema,
                         Some(OwnerMeta))

Configs == {CfgSample, CfgSampleLoose, CfgTest, CfgTestOwned}

(***************************************************************************)
(* EnrichmentDefinition                                                    *)
(***************************************************************************)
EnrichmentDefinition(name, description, metadata, t) ==
  [name |-> name, description |-> description, versions |-> <<>>,
   status |-> "draft", metadata |-> metadata,
   created_at |-> t, updated_at |-> t]

\* insert at the front instead of appending
add_version_prepend(definition, version, t) ==
  [definition EXCEPT !.versions = <<version>> \o @, !.updated_at = t]

add_version(definition, version, t) ==
  [definition EXCEPT !.versions = Append(@, version), !.updated_at = t]

\* a lookup that falls back to the newest version when no id matches
get_version_fallback(definition, version_id) ==
  LET hits == {i \in DOMAIN definition.versions :
                 definition.versions[i].version_id = version_id}
  IN IF hits # {} THEN Some(definition.versions[Min(hits)])
     ELSE IF Len(definition.versions) > 0
     THEN Some(definition.versions[Len(definition.versions)])
     ELSE None

get_version(definition, version_id) ==
  LET hits == {i \in DOMAIN definition.versions :
                 definition.versions[i].version_id = version_id}
  IN IF hits = {} THEN None ELSE Some(definition.versions[Min(hits)])

\* the oldest version instead of the newest
get_latest_version_first(definition) ==
  IF Len(definition.versions) > 0 THEN Some(definition.versions[1]) ELSE None

get_latest_version(definition) ==
  IF Len(definition.versions) > 0
  THEN Some(definition.versions[Len(definition.versions)])
  ELSE None

(***************************************************************************)
(* Initial state: FeatureStore.__init__                                    *)
(***************************************************************************)
NoCall == [op |-> "none"]

\* the threads that call the store, and a thread that is in no call
Callers == 1..MaxCallers
Idle == [pc |-> "idle", name |-> "", description |-> "", metadata |-> None,
         read |-> None, built |-> None, outcome |-> "none"]
NoRet == [op |-> "none", outcome |-> "none", exc |-> "none"]

Init ==
  /\ enrichments = <<>>
  /\ jobs = <<>>
  /\ features = <<>>
  /\ callers = [c \in Callers |-> Idle]
  /\ nextJob = 1
  /\ now = 1
  /\ steps = 0
  /\ call = NoCall
  /\ ret = NoRet

Registered == DOMAIN enrichments

Put(map, key, value) ==
  [k \in DOMAIN map \cup {key} |-> IF k = key THEN value ELSE map[k]]

Ok(op) == [op |-> op, outcome |-> "ok", exc |-> "none"]
Fail(op, exc, msg) == [op |-> op, outcome |-> msg, exc |-> exc]

\* one more step taken by a call; datetime.utcnow() reads the clock `now`
Called ==
  /\ steps < MaxSteps
  /\ steps' = steps + 1
  /\ UNCHANGED <<now, call, callers>>

\* time passes between calls
Tick ==
  /\ steps < MaxSteps
  /\ now < MaxTime
  /\ now' = now + 1
  /\ steps' = steps + 1
  /\ UNCHANGED <<enrichments, jobs, features, nextJob, call, ret, callers>>

(***************************************************************************)
(* FeatureStore: the catalog                                               *)
(***************************************************************************)
\* registration that replaces an existing definition
register_enrichment_upsert(name, description, metadata) ==
  /\ Called
  /\ enrichments' = Put(enrichments, name,
        EnrichmentDefinition(name, description, OrEmptyDict(metadata), now))
  /\ ret' = Ok("register_enrichment")
  /\ UNCHANGED <<jobs, features, nextJob>>

register_enrichment(name, description, metadata) ==
  /\ Called
  /\ IF name \in Registered
     THEN /\ ret' = Fail("register_enrichment", "ValueError", "already exists")
          /\ UNCHANGED enrichments
     ELSE /\ enrichments' = Put(enrichments, name,
                 EnrichmentDefinition(name, description, OrEmptyDict(metadata), now))
          /\ ret' = Ok("register_enrichment")
  /\ UNCHANGED <<jobs, features, nextJob>>

\* EnrichmentVersion.create(cls, config) as a callee: its parameters after cls
\* (none has a default), and the keywords FeatureStore.create_version passes.
CreateParameters == {"config"}
CreateVersionKeywords == {"prompt", "model", "params", "input_schema",
                          "output_schema", "metadata"}

\* Python's argument binding for a keyword-only call: every keyword names a
\* parameter and every parameter without default is supplied
CallBinds(parameters, keywords) ==
  /\ keywords \subseteq parameters
  /\ parameters \subseteq keywords

create_version(enrichment_name, config) ==
  /\ Called
  /\ IF enrichment_name \notin Registered
     THEN /\ ret' = Fail("create_version", "ValueError", "not found")
          /\ UNCHANGED enrichments
     ELSE IF ~CallBinds(CreateParameters, CreateVersionKeywords)
     THEN /\ ret' = Fail("create_version", "TypeError", "unexpected keyword argument")
          /\ UNCHANGED enrichments
     ELSE LET version == EnrichmentVersionCreate(config, now)
          IN /\ enrichments' = [enrichments EXCEPT ![enrichment_name] =
                                  add_version(@, version, now)]
             /\ ret' = [op |-> "create_version", outcome |-> "ok", exc |-> "none",
                        version |-> version]
  /\ UNCHANGED <<jobs, features, nextJob>>

\* the versions a client can hold: EnrichmentVersion.create(config) touches
\* no store, and was called when the clock read some t up to the present
VersionsMade(configs) ==
  {EnrichmentVersionCreate(c, t) : c \in configs, t \in 1..now}

\* definition.add_version(version) on a definition of the catalog (the object
\* register_enrichment returned), for a version the client made earlier or
\* just now, as the fixtures of tests/conftest.py do
AddVersion(enrichment_name, version) ==
  /\ Called
  /\ enrichment_name \in Registered
  /\ enrichments' = [enrichments EXCEPT ![enrichment_name] =
                       add_version(@, version, now)]
  /\ ret' = [op |-> "add_version", outcome |-> "ok", exc |-> "none",
             version |-> version]
  /\ UNCHANGED <<jobs, features, nextJob>>

(***************************************************************************)
(* FeatureStore: jobs                                                      *)
(***************************************************************************)
EnrichmentJobCreate(job_id, dataset_id, enrichment_name, enrichment_version, input_data, t) ==
  [job_id |-> job_id, dataset_id |-> dataset_id,
   enrichment_name |-> enrichment_name,
   enrichment_version |-> enrichment_version,
   status |-> "pending", created_at |-> t, input_data |-> input_data,
   result |-> None, error |-> None, started_at |-> None,
   completed_at |-> None, metadata |-> EmptyDict]

\* `if version_id:` an Optional[str] is truthy unless None or the empty string
Truthy(version_id) == ~IsNone(version_id) /\ Unwrap(version_id) # <<>>

\* the version queue_job resolves: explicit id, else the latest
ResolveVersion(enrichment, version_id) ==
  IF Truthy(version_id)
  THEN get_version(enrichment, Unwrap(version_id))
  ELSE get_latest_version(enrichment)

\* queue_job without its validation step
InputCheckSkipped(version, input_data) == Returned(0, 0)

\* line 75: version.input_schema.validate(input_data)
InputCheck(version, input_data) == Validate(version.input_schema, input_data)

queue_job(dataset_id, enrichment_name, input_data, version_id) ==
  /\ Called
  /\ IF enrichment_name \notin Registered
     THEN /\ ret' = Fail("queue_job", "ValueError", "Enrichment not found")
          /\ UNCHANGED <<jobs, nextJob>>
     ELSE
       LET enrichment == enrichments[enrichment_name]
           version == ResolveVersion(enrichment, version_id)
       IN IF IsNone(version)
          THEN /\ ret' = Fail("queue_job", "ValueError",
                              IF Truthy(version_id) THEN "Version not found"
                              ELSE "No versions found")
               /\ UNCHANGED <<jobs, nextJob>>
          ELSE
            LET checked == InputCheck(Unwrap(version), input_data)
            IN IF checked.outcome # "ok"
               THEN /\ ret' = Fail("queue_job", checked.exc, checked.outcome)
                    /\ UNCHANGED <<jobs, nextJob>>
               ELSE /\ jobs' = Append(jobs,
                         EnrichmentJobCreate(nextJob, dataset_id, enrichment_name,
                                             Unwrap(version).version_id, input_data, now))
                    /\ nextJob' = nextJob + 1
                    /\ ret' = [op |-> "queue_job", outcome |-> "ok", exc |-> "none",
                               job |-> nextJob]
  /\ UNCHANGED <<enrichments, features>>

\* a lookup that falls back to the job queued last when no id matches
get_job_last(job_id) ==
  LET hits == {i \in DOMAIN jobs : jobs[i].job_id = job_id}
  IN IF hits = {} THEN Len(jobs) ELSE Min(hits)

\* index in self.jobs of the job get_job returns, 0 for None
get_job(job_id) ==
  LET hits == {i \in DOMAIN jobs : jobs[i].job_id = job_id}
  IN IF hits = {} THEN 0 ELSE Min(hits)

\* completed_at stamped on COMPLETED only
SetStatusNoFailedStamp(job, status, t) ==
  IF IsNone(status) THEN job
  ELSE LET st == Unwrap(status)
       IN IF st = "running"
          THEN [job EXCEPT !.status = st, !.started_at = Some(t)]
          ELSE IF st = "completed"
          THEN [job EXCEPT !.status = st, !.completed_at = Some(t)]
          ELSE [job EXCEPT !.status = st]

\* RUNNING stamps created_at instead of started_at
SetStatusRestamps(job, status, t) ==
  IF IsNone(status) THEN job
  ELSE LET st == Unwrap(status)
       IN IF st = "running"
          THEN [job EXCEPT !.status = st, !.created_at = t]
          ELSE IF st \in {"completed", "failed"}
          THEN [job EXCEPT !.status = st, !.completed_at = Some(t)]
          ELSE [job EXCEPT !.status = st]

\* lines 104-109: the status and its timestamp
SetStatus(job, status, t) ==
  IF IsNone(status) THEN job
  ELSE LET st == Unwrap(status)
       IN IF st = "running"
          THEN [job EXCEPT !.status = st, !.started_at = Some(t)]
          ELSE IF st \in {"completed", "failed"}
          THEN [job EXCEPT !.status = st, !.completed_at = Some(t)]
          ELSE [job EXCEPT !.status = st]

\* update_job without its validation step
OutputCheckSkipped(job, result) == Returned(0, 0)

\* lines 113-116: the outcome of validating result for this job
OutputCheck(job, result) ==
  LET version == get_version(enrichments[job.enrichment_name], job.enrichment_version)
  IN IF IsNone(version) THEN Returned(0, 0)
     ELSE Validate(Unwrap(version).output_schema, Unwrap(result))

\* an error message that also fails the job
SetErrorForcesFailed(job, error) ==
  IF IsNone(error) THEN job ELSE [job EXCEPT !.error = error, !.status = "failed"]

\* an error message that also discards the result
SetErrorClearsResult(job, error) ==
  IF IsNone(error) THEN job ELSE [job EXCEPT !.error = error, !.result = None]

\* lines 119-120
SetError(job, error) ==
  IF IsNone(error) THEN job ELSE [job EXCEPT !.error = error]

update_job(job_id, status, result, error) ==
  /\ Called
  /\ LET i == get_job(job_id)
     IN IF i = 0
        THEN /\ ret' = [op |-> "update_job", outcome |-> "ok", exc |-> "none",
                        job |-> 0]
             /\ UNCHANGED jobs
        ELSE
          LET staged == SetStatus(jobs[i], status, now)
          IN IF IsNone(result)
             THEN /\ jobs' = [jobs EXCEPT ![i] = SetError(staged, error)]
                  /\ ret' = [op |-> "update_job", outcome |-> "ok", exc |-> "none",
                             job |-> job_id]
             ELSE IF jobs[i].enrichment_name \notin Registered
             THEN /\ jobs' = [jobs EXCEPT ![i] = staged]
                  /\ ret' = Fail("update_job", "KeyError", "enrichment_name")
             ELSE
               LET checked == OutputCheck(staged, result)
               IN IF checked.outcome # "ok"
                  THEN /\ jobs' = [jobs EXCEPT ![i] = staged]
                       /\ ret' = Fail("update_job", checked.exc, checked.outcome)
                  ELSE /\ jobs' = [jobs EXCEPT ![i] =
                                     SetError([staged EXCEPT !.result = result], error)]
                       /\ ret' = [op |-> "update_job", outcome |-> "ok",
                                  exc |-> "none", job |-> job_id]
  /\ UNCHANGED <<enrichments, features, nextJob>>

(***************************************************************************)
(* FeatureStore: feature sets                                              *)
(***************************************************************************)
\* FeatureSet.__init__ (dataclass): its parameters without and with a default,
\* and the keywords FeatureStore.add_features passes to it
FeatureSetRequired == {"dataset_id", "features"}
FeatureSetDefaulted == {"metadata", "created_at", "updated_at"}
AddFeaturesKeywords == {"dataset_id"}

\* Python's argument binding for a keyword call of a callee with defaults
ConstructorBinds(required, defaulted, keywords) ==
  /\ keywords \subseteq required \cup defaulted
  /\ required \subseteq keywords

FeatureSet(dataset_id, feature_map, t) ==
  [dataset_id |-> dataset_id, features |-> feature_map, metadata |-> EmptyDict,
   created_at |-> t, updated_at |-> t]

\* FeatureSet.add_features that merges the payload into the one recorded
FeatureSetAddMerging(feature_set, enrichment_name, payload, t) ==
  [feature_set EXCEPT
     !.features = Put(@, enrichment_name,
                      IF enrichment_name \in DOMAIN @ THEN @[enrichment_name] \o payload
                      ELSE payload),
     !.updated_at = t]

\* FeatureSet.add_features
FeatureSetAdd(feature_set, enrichment_name, payload, t) ==
  [feature_set EXCEPT !.features = Put(@, enrichment_name, payload), !.updated_at = t]

\* FeatureSet.get_features: self.features.get(enrichment_name)
FeatureSetGet(feature_set, enrichment_name) ==
  IF enrichment_name \in DOMAIN feature_set.features
  THEN Some(feature_set.features[enrichment_name])
  ELSE None

add_features(dataset_id, enrichment_name, payload) ==
  /\ Called
  /\ IF dataset_id \notin DOMAIN features
        /\ ~ConstructorBinds(FeatureSetRequired, FeatureSetDefaulted, AddFeaturesKeywords)
     THEN /\ ret' = Fail("add_features", "TypeError", "missing required argument")
          /\ UNCHANGED features
     ELSE LET feature_set == IF dataset_id \in DOMAIN features THEN features[dataset_id]
                             ELSE FeatureSet(dataset_id, <<>>, now)
          IN /\ features' = Put(features, dataset_id,
                                FeatureSetAdd(feature_set, enrichment_name, payload, now))
             /\ ret' = Ok("add_features")
  /\ UNCHANGED <<enrichments, jobs, nextJob>>

\* `if enrichment_name:` an Optional[str] is truthy unless None or ""
NameGiven(enrichment_name) == ~IsNone(enrichment_name) /\ Unwrap(enrichment_name) # ""

get_features(dataset_id, enrichment_name) ==
  /\ Called
  /\ IF dataset_id \notin DOMAIN features
     THEN ret' = [op |-> "get_features", outcome |-> "ok", exc |-> "none",
                  payload |-> None]
     ELSE IF NameGiven(enrichment_name)
     THEN ret' = [op |-> "get_features", outcome |-> "ok", exc |-> "none",
                  payload |-> FeatureSetGet(features[dataset_id], Unwrap(enrichment_name))]
     ELSE ret' = [op |-> "get_features", outcome |-> "ok", exc |-> "none",
                  all |-> features[dataset_id].features]
  /\ UNCHANGED <<enrichments, jobs, features, nextJob>>

(***************************************************************************)
(* Inputs of the store operations                                          *)
(***************************************************************************)
Names == {"test", "other"}
Descriptions == {"test enrichment", "duplicate enrichment"}
Metadatas == {None, Some(OwnerMeta)}

JobStatus == {"pending", "running", "completed", "failed", "cancelled"}

\* tests/test_store.py: valid input, and input without the required "text"
InputValid == << <<"text", StrHello>>, <<"length", Int9>> >>
InputNoText == << <<"length", Int9>> >>
InputUnknownKey == << <<"text", StrHello>>, <<"extra", Int5>> >>
InputBadType == << <<"text", StrHello>>, <<"length", Str5>> >>
InputNegative == << <<"text", StrHello>>, <<"length", IntNeg1>> >>
JobInputs == {InputValid, InputNoText, InputUnknownKey, InputBadType, InputNegative}

\* tests/test_store.py: a valid result, and one without the required key_points
ResultValid == << <<"key_points", ListPoints>>, <<"summary", StrHello>> >>
ResultNoPoints == << <<"summary", StrHello>> >>
JobResults == {ResultValid, ResultNoPoints}

StoreConfigs == {CfgSample, CfgSampleLoose, CfgTest}
VersionIdArgs == {None, Some(<<>>)} \cup {Some(VersionId(c)) : c \in StoreConfigs}
StatusArgs == {None} \cup {Some(s) : s \in JobStatus}
ResultArgs == {None} \cup {Some(r) : r \in JobResults}
ErrorArgs == {None, Some("boom")}
JobIdArgs == 1..nextJob

\* tests/test_store.py test_get_features
Datasets == {"test", "test_dataset"}
FeaturePayloads == {<< <<"key_points", ListPoints>> >>, << <<"summary", StrHello>> >>}
NameArgs == {None} \cup {Some(n) : n \in Names}

(***************************************************************************)
(* Schema.validate as a pure function: inputs drawn in the initial state   *)
(***************************************************************************)
InitValidate ==
  /\ enrichments = <<>>
  /\ jobs = <<>>
  /\ features = <<>>
  /\ callers = [c \in Callers |-> Idle]
  /\ nextJob = 1
  /\ now = 1
  /\ steps = 0
  /\ call \in {[op |-> "validate", schema |-> s, data |-> d] :
                 s \in Schemas, d \in DataDicts}
  /\ ret = NoRet

SchemaValidate ==
  /\ call.op = "validate"
  /\ ret.op = "none"
  /\ LET r == Validate(call.schema, call.data)
     IN ret' = [op |-> "validate", outcome |-> r.outcome, exc |-> r.exc,
                field |-> r.field, typeChecks |-> r.typeChecks,
                validatorCalls |-> r.validatorCalls]
  /\ UNCHANGED <<enrichments, jobs, features, nextJob, now, steps, call, callers>>

NextValidate == SchemaValidate

SpecValidate == InitValidate /\ [][NextValidate]_vars

(***************************************************************************)
(* The catalog alone                                                       *)
(***************************************************************************)
NextCatalog ==
  \/ \E n \in Names, d \in Descriptions, m \in Metadatas :
       register_enrichment(n, d, m)
  \/ \E n \in Names, c \in Configs : create_version(n, c)
  \/ \E n \in Names, v \in VersionsMade(Configs) : AddVersion(n, v)
  \/ Tick

SpecCatalog == Init /\ [][NextCatalog]_vars

(***************************************************************************)
(* The store                                                               *)
(***************************************************************************)
Next ==
  \/ register_enrichment("test", "test enrichment", None)
  \/ \E n \in Names, c \in StoreConfigs : create_version(n, c)
  \/ \E v \in VersionsMade(StoreConfigs) : AddVersion("test", v)
  \/ \E n \in Names, d \in JobInputs, v \in VersionIdArgs :
       queue_job("test_dataset", n, d, v)
  \/ \E j \in JobIdArgs, s \in StatusArgs, r \in ResultArgs, e \in ErrorArgs :
       update_job(j, s, r, e)
  \/ Tick

Spec == Init /\ [][Next]_vars

(***************************************************************************)
(* The feature sets of registered enrichments                              *)
(***************************************************************************)
NextFeatures ==
  \/ \E n \in Names, d \in Descriptions, m \in Metadatas :
       register_enrichment(n, d, m)
  \/ \E d \in Datasets, n \in Names, p \in FeaturePayloads : add_features(d, n, p)
  \/ \E d \in Datasets, n \in NameArgs : get_features(d, n)
  \/ Tick

SpecFeatures == Init /\ [][NextFeatures]_vars

(***************************************************************************)
(* register_enrichment called from several threads: a call is four steps,  *)
(* the membership check of lines 24-25, the two clock reads of the         *)
(* construction of the definition in lines 27-31 (created_at, then         *)
(* updated_at) and the insertion of lines 32-33; the steps of different    *)
(* callers interleave freely (the store has no lock). The step budget      *)
(* counts the calls begun and the clock ticks.                             *)
(***************************************************************************)
\* line 24-25: `if name in self.enrichments: raise ValueError`
RegisterCheck(c, name, description, metadata) ==
  /\ steps < MaxSteps
  /\ steps' = steps + 1
  /\ callers[c].pc = "idle"
  /\ IF name \in Registered
     THEN /\ callers' = [callers EXCEPT ![c] =
                [pc |-> "idle", name |-> name, description |-> description,
                 metadata |-> metadata, read |-> None, built |-> None,
                 outcome |-> "already exists"]]
          /\ ret' = Fail("register_enrichment", "ValueError", "already exists")
     ELSE /\ callers' = [callers EXCEPT ![c] =
                [pc |-> "build", name |-> name, description |-> description,
                 metadata |-> metadata, read |-> None, built |-> None,
                 outcome |-> "none"]]
          /\ UNCHANGED ret
  /\ UNCHANGED <<enrichments, jobs, features, nextJob, now, call>>

\* lines 27-31, entering EnrichmentDefinition.__init__: the default factory
\* of created_at reads the clock
RegisterReadClock(c) ==
  /\ callers[c].pc = "build"
  /\ callers' = [callers EXCEPT ![c].pc = "stamp", ![c].read = Some(now)]
  /\ UNCHANGED <<enrichments, jobs, features, nextJob, now, steps, call, ret>>

\* lines 27-31, leaving EnrichmentDefinition.__init__: the default factory of
\* updated_at reads the clock again and the definition is complete
RegisterBuild(c) ==
  /\ callers[c].pc = "stamp"
  /\ callers' = [callers EXCEPT
        ![c].pc = "store",
        ![c].read = None,
        ![c].built = Some([EnrichmentDefinition(callers[c].name, callers[c].description,
                                                OrEmptyDict(callers[c].metadata),
                                                Unwrap(callers[c].read))
                             EXCEPT !.updated_at = now])]
  /\ UNCHANGED <<enrichments, jobs, features, nextJob, now, steps, call, ret>>

\* lines 32-33: `self.enrichments[name] = enrichment`, return enrichment
RegisterStore(c) ==
  /\ callers[c].pc = "store"
  /\ enrichments' = Put(enrichments, callers[c].name, Unwrap(callers[c].built))
  /\ callers' = [callers EXCEPT ![c].pc = "idle", ![c].built = None,
                                ![c].outcome = "ok"]
  /\ ret' = Ok("register_enrichment")
  /\ UNCHANGED <<jobs, features, nextJob, now, steps, call>>

NextConcurrent ==
  \/ \E c \in Callers, n \in Names, d \in Descriptions :
       RegisterCheck(c, n, d, None)
  \/ \E c \in Callers : RegisterReadClock(c)
  \/ \E c \in Callers : RegisterBuild(c)
  \/ \E c \in Callers : RegisterStore(c)
  \/ Tick

SpecConcurrent == Init /\ [][NextConcurrent]_vars

(***************************************************************************)
(* Properties                                                              *)
(***************************************************************************)
IsPrefix(a, b) == Len(a) <= Len(b) /\ \A i \in DOMAIN a : b[i] = a[i]

\* C1: queue_job called with input_data that fails the input schema of the
\* version it resolves raises, and the job collection is what it was before
\* the call (no job added, none altered, no job id consumed).
ValidateBeforeCreate ==
  [][ret'.op = "queue_job" =>
     \A n \in Names, d \in JobInputs, v \in VersionIdArgs :
       ( /\ n \in Registered
         /\ ~IsNone(ResolveVersion(enrichments[n], v))
         /\ Validate(Unwrap(ResolveVersion(enrichments[n], v)).input_schema, d).outcome # "ok"
         /\ queue_job("test_dataset", n, d, v) )
       => (ret'.exc # "none" /\ jobs' = jobs /\ nextJob' = nextJob)]_vars

\* a rejected queue_job in a store that already holds a job
RejectedInputReached ==
  /\ ret.op = "queue_job"
  /\ ret.outcome \in {"Missing required field", "Unknown field", "Type mismatch",
                      "Validation failed"}
  /\ Len(jobs) >= 1

\* C2: update_job on an existing job with a result that fails the output
\* schema of the job's version raises and leaves the job record as it was
\* (status, started_at, completed_at, result, error).
NoPartialStateOnInvalidResult ==
  [][ret'.op = "update_job" =>
     \A j \in JobIdArgs, st \in StatusArgs, r \in ResultArgs, e \in ErrorArgs :
       ( /\ get_job(j) # 0
         /\ ~IsNone(r)
         /\ OutputCheck(jobs[get_job(j)], r).outcome # "ok"
         /\ update_job(j, st, r, e) )
       => (ret'.exc # "none" /\ jobs' = jobs)]_vars

LegalTransitions ==
  {<<"pending", "running">>, <<"running", "completed">>, <<"running", "failed">>,
   <<"pending", "cancelled">>, <<"running", "cancelled">>}

\* C3 (as stated): a job's status only changes along the state diagram, and
\* never changes once it is COMPLETED, FAILED or CANCELLED.
StatusFollowsDiagram ==
  [][\A i \in DOMAIN jobs :
       /\ i \in DOMAIN jobs'
       /\ jobs'[i].status # jobs[i].status
            => <<jobs[i].status, jobs'[i].status>> \in LegalTransitions]_vars

\* C3 (amended): a job's status changes only in an update_job call for that
\* job that names a status, and becomes exactly the status named; no other
\* operation and no other argument of update_job changes it.
StatusChangesOnlyAsRequested ==
  [][\A i \in DOMAIN jobs :
       /\ i \in DOMAIN jobs'
       /\ jobs'[i].status # jobs[i].status
            => /\ ret'.op = "update_job"
               /\ \E j \in JobIdArgs, st \in StatusArgs, r \in ResultArgs,
                     e \in ErrorArgs :
                    /\ get_job(j) = i
                    /\ ~IsNone(st)
                    /\ jobs'[i].status = Unwrap(st)
                    /\ update_job(j, st, r, e)]_vars

\* a job that left a terminal status: RUNNING again after it had completed
TerminalOverwritten ==
  \E i \in DOMAIN jobs :
    jobs[i].status = "running" /\ ~IsNone(jobs[i].completed_at)

StampedInv ==
  \A i \in DOMAIN jobs :
    /\ jobs[i].status = "running" => ~IsNone(jobs[i].started_at)
    /\ jobs[i].status \in {"completed", "failed"} => ~IsNone(jobs[i].completed_at)

FreshJobUnstamped ==
  Len(jobs') = Len(jobs) + 1
    => /\ IsNone(jobs'[Len(jobs')].started_at)
       /\ IsNone(jobs'[Len(jobs')].completed_at)

\* C4: every RUNNING job has a started_at, every COMPLETED or FAILED job has
\* a completed_at, and a job just queued has neither timestamp.
TimestampStamping == []StampedInv /\ [][FreshJobUnstamped]_vars

\* a job that ran and then failed, stamped both times
StampedJobReached ==
  \E i \in DOMAIN jobs :
    /\ jobs[i].status = "failed"
    /\ ~IsNone(jobs[i].completed_at)
    /\ ~IsNone(jobs[i].started_at)

\* C5 as stated: a successful queue_job appends exactly one job, PENDING with
\* no result and no error, whose enrichment_version is the version_id passed
\* whenever one is passed (the empty string included), and otherwise the
\* version_id of the last element of the enrichment's version list; the jobs
\* already there are unchanged.
QueueAppendsJobOnSuppliedVersion ==
  [][(ret'.op = "queue_job" /\ ret'.exc = "none") =>
     \A n \in Names, d \in JobInputs, v \in VersionIdArgs :
       queue_job("test_dataset", n, d, v)
       => /\ jobs' = Append(jobs, jobs'[Len(jobs')])
          /\ jobs'[Len(jobs')].status = "pending"
          /\ IsNone(jobs'[Len(jobs')].result)
          /\ IsNone(jobs'[Len(jobs')].error)
          /\ jobs'[Len(jobs')].enrichment_name = n
          /\ jobs'[Len(jobs')].enrichment_version =
               IF ~IsNone(v) THEN Unwrap(v)
               ELSE enrichments[n].versions[Len(enrichments[n].versions)].version_id]_vars

\* C5, amended: a successful queue_job appends exactly one job, PENDING with
\* no result and no error, whose enrichment_version is the version_id passed
\* when a non-empty one is passed, and otherwise (version_id omitted or the
\* empty string) the version_id of the last element of the enrichment's
\* version list; the jobs already there are unchanged.
QueueAppendsPendingJob ==
  [][(ret'.op = "queue_job" /\ ret'.exc = "none") =>
     \A n \in Names, d \in JobInputs, v \in VersionIdArgs :
       queue_job("test_dataset", n, d, v)
       => /\ jobs' = Append(jobs, jobs'[Len(jobs')])
          /\ jobs'[Len(jobs')].status = "pending"
          /\ IsNone(jobs'[Len(jobs')].result)
          /\ IsNone(jobs'[Len(jobs')].error)
          /\ jobs'[Len(jobs')].enrichment_name = n
          /\ jobs'[Len(jobs')].enrichment_version =
               IF Truthy(v) THEN Unwrap(v)
               ELSE enrichments[n].versions[Len(enrichments[n].versions)].version_id]_vars

\* a second job queued on the latest of two versions with different ids
SecondJobOnLatestReached ==
  /\ ret.op = "queue_job" /\ ret.exc = "none"
  /\ Len(jobs) >= 2
  /\ "test" \in Registered
  /\ Len(enrichments["test"].versions) >= 2
  /\ enrichments["test"].versions[1].version_id # enrichments["test"].versions[2].version_id
  /\ jobs[Len(jobs)].enrichment_version = enrichments["test"].versions[2].version_id

\* C6: register_enrichment with a name already in the catalog raises the
\* "already exists" error and leaves the catalog unchanged; no operation ever
\* changes the description, status, metadata or creation time of a registered
\* definition or removes versions from it.
DuplicateRegistrationRejected ==
  [][\A n \in Registered :
       /\ (ret'.op = "register_enrichment" /\
           \E d \in Descriptions, m \in Metadatas :
             register_enrichment(n, d, m))
            => /\ ret'.exc = "ValueError" /\ ret'.outcome = "already exists"
               /\ enrichments' = enrichments
       /\ n \in DOMAIN enrichments'
       /\ enrichments'[n].description = enrichments[n].description
       /\ enrichments'[n].status = enrichments[n].status
       /\ enrichments'[n].metadata = enrichments[n].metadata
       /\ enrichments'[n].created_at = enrichments[n].created_at
       /\ IsPrefix(enrichments[n].versions, enrichments'[n].versions)]_vars

\* a duplicate registration rejected for a definition that has a version
DuplicateRejectedReached ==
  /\ ret.op = "register_enrichment" /\ ret.outcome = "already exists"
  /\ \E n \in Registered : Len(enrichments[n].versions) >= 1

\* C7: FeatureStore.create_version on a registered name succeeds, returns the
\* new version and appends it as the last element of that enrichment's
\* version list, leaving the other enrichments' lists alone.
CreateVersionAppends ==
  [][\A n \in Names, c \in Configs :
       (ret'.op = "create_version" /\ n \in Registered /\ create_version(n, c))
       => /\ ret'.exc = "none"
          /\ get_latest_version(enrichments'[n]) = Some(ret'.version)
          /\ enrichments'[n].versions = Append(enrichments[n].versions, ret'.version)
          /\ \A o \in Registered \ {n} :
               enrichments'[o].versions = enrichments[o].versions]_vars

\* C8: after add_version, get_latest_version is the version just appended;
\* it is none exactly when the list is empty, and no step removes or
\* reorders versions.
LatestIsLastAppended ==
  /\ [](\A n \in Registered :
          IsNone(get_latest_version(enrichments[n])) <=> Len(enrichments[n].versions) = 0)
  /\ [][\A n \in Registered :
          /\ n \in DOMAIN enrichments'
          /\ IsPrefix(enrichments[n].versions, enrichments'[n].versions)
          /\ \A v \in VersionsMade(Configs) :
               (ret'.op = "add_version" /\ AddVersion(n, v))
               => /\ get_latest_version(enrichments'[n]) = Some(v)
                  /\ Len(enrichments'[n].versions) = Len(enrichments[n].versions) + 1]_vars

\* V1 then a different V2 appended: the latest is V2
SecondVersionLatestReached ==
  /\ ret.op = "add_version"
  /\ \E n \in Registered :
       /\ Len(enrichments[n].versions) = 2
       /\ enrichments[n].versions[1] # enrichments[n].versions[2]
       /\ get_latest_version(enrichments[n]) = Some(ret.version)
       /\ enrichments[n].versions[2] = ret.version

\* dicts are equal when they hold the same items, in whatever order
DictEq(a, b) == {a[i] : i \in DOMAIN a} = {b[i] : i \in DOMAIN b}

CatalogVersions ==
  UNION {{enrichments[n].versions[i] : i \in DOMAIN enrichments[n].versions} :
           n \in Registered}

SameSemanticInputs(v, w) ==
  /\ v.prompt_template = w.prompt_template
  /\ v.model_id = w.model_id
  /\ DictEq(v.parameters, w.parameters)
  /\ DictEq(v.input_schema.fields, w.input_schema.fields)
  /\ DictEq(v.output_schema.fields, w.output_schema.fields)
  /\ DictEq(v.metadata, w.metadata)

\* C9: two versions created from configurations that agree on prompt, model,
\* params, both schemas' fields and metadata have the same version_id,
\* whatever their creation times, required lists and validators.
VersionIdDeterministic ==
  \A v, w \in CatalogVersions :
    SameSemanticInputs(v, w) => v.version_id = w.version_id

\* versions created at different times with different required lists and
\* validators and differently ordered dicts, and one id
SameIdDifferentSchemasReached ==
  \E v, w \in CatalogVersions :
    /\ SameSemanticInputs(v, w)
    /\ v.created_at # w.created_at
    /\ v.input_schema.required # w.input_schema.required
    /\ v.input_schema.validators # w.input_schema.validators
    /\ v.parameters # w.parameters
    /\ v.version_id = w.version_id

\* C10: when data lacks a required field, validate raises the missing-field
\* error, whatever else is wrong with the data, before any type check or
\* validator is evaluated.
MissingFieldFirst ==
  (ret.op = "validate" /\ FirstMissing(call.schema, call.data) # 0)
    => /\ ret.exc = "ValueError"
       /\ ret.outcome = "Missing required field"
       /\ ret.field \in {call.schema.required[i] : i \in DOMAIN call.schema.required}
       /\ ret.field \notin DictKeys(call.data)
       /\ ret.typeChecks = 0
       /\ ret.validatorCalls = 0

\* data with a required field missing and, first in order, an unknown key
MissingWithUnknownKeyReached ==
  /\ ret.op = "validate"
  /\ ret.outcome = "Missing required field"
  /\ Len(call.data) >= 1
  /\ call.data[1][1] \notin DictKeys(call.schema.fields)

\* what the claims about validate speak of, read off the call's arguments
AllRequiredPresent ==
  \A i \in DOMAIN call.schema.required : call.schema.required[i] \in DictKeys(call.data)

AllKeysDeclared == DictKeys(call.data) \subseteq DictKeys(call.schema.fields)

DeclaredTag(i) == DictGet(call.schema.fields, call.data[i][1])

\* Python truthiness of a value: None, zero and empty are falsy
Falsy(value) == value.kind = "NoneType" \/ value.v = 0

HasValidator(i) == call.data[i][1] \in DictKeys(call.schema.validators)
ValidatorAnswer(i) ==
  ApplyValidator(DictGet(call.schema.validators, call.data[i][1]), call.data[i][2])

\* C11: with every required field present, every key declared and every value
\* of its declared type, validate raises the custom-validation error whenever
\* some field's validator answers with a falsy value for it.
FalsyValidatorRejected ==
  ( /\ ret.op = "validate"
    /\ AllRequiredPresent
    /\ AllKeysDeclared
    /\ \A i \in DOMAIN call.data : call.data[i][2].kind = DeclaredTag(i)
    /\ \E i \in DOMAIN call.data : HasValidator(i) /\ Falsy(ValidatorAnswer(i)) )
  => (ret.exc = "ValueError" /\ ret.outcome = "Validation failed")

\* the six kinds taken as pairwise distinct
KindIsTag(i) == call.data[i][2].kind = DeclaredTag(i)

\* the kinds as Python's isinstance relates them: a bool is also an int
Conforms(i) ==
  \/ call.data[i][2].kind = DeclaredTag(i)
  \/ (DeclaredTag(i) = "int" /\ call.data[i][2].kind = "bool")

\* C12 (as stated): with every required field present and every key declared,
\* validate raises the type-mismatch error whenever some value is not of the
\* kind its tag names, the six kinds being distinct (a bool for an int fails).
MistypedRejectedStrict ==
  ( /\ ret.op = "validate"
    /\ AllRequiredPresent
    /\ AllKeysDeclared
    /\ \E i \in DOMAIN call.data : ~KindIsTag(i) )
  => (ret.exc = "TypeError" /\ ret.outcome = "Type mismatch")

FirstMistyped == Min({i \in DOMAIN call.data : ~Conforms(i)})

\* C12 (amended): with every required field present and every key declared,
\* data holding a value that is not an instance of the class its tag names (a
\* bool counting as an int) never validates: validate raises the type-mismatch
\* error for the first such field, unless the validator of an earlier field
\* answered False, which raises the custom-validation error for that field;
\* data whose values all conform and whose validators never answer False is
\* accepted, a bool in an int field included.
MistypedRejected ==
  ( /\ ret.op = "validate"
    /\ AllRequiredPresent
    /\ AllKeysDeclared )
  => IF \E i \in DOMAIN call.data : ~Conforms(i)
     THEN \/ /\ ret.exc = "TypeError" /\ ret.outcome = "Type mismatch"
             /\ ret.field = call.data[FirstMistyped][1]
          \/ /\ ret.exc = "ValueError" /\ ret.outcome = "Validation failed"
             /\ \E k \in 1..(FirstMistyped - 1) :
                  /\ ret.field = call.data[k][1]
                  /\ HasValidator(k) /\ ValidatorAnswer(k) = BoolFalse
     ELSE (\A i \in DOMAIN call.data : HasValidator(i) => ValidatorAnswer(i) # BoolFalse)
            => ret.outcome = "ok"

\* a string in an int field rejected, in data that also holds a boolean
\* under a declared key
StringForIntRejectedReached ==
  /\ ret.op = "validate"
  /\ ret.outcome = "Type mismatch"
  /\ \E i \in DOMAIN call.data :
       /\ call.data[i][1] = ret.field
       /\ call.data[i][2].kind = "str" /\ DeclaredTag(i) = "int"
  /\ \E k \in DOMAIN call.data :
       call.data[k][2].kind = "bool" /\ call.data[k][1] \in DictKeys(call.schema.fields)

FirstUndeclared ==
  Min({i \in DOMAIN call.data : call.data[i][1] \notin DictKeys(call.schema.fields)})

\* C13: validate never succeeds on data holding a key the schema's fields do
\* not declare; with all required fields present it raises the unknown-field
\* error for the first such key, unless an earlier key already failed.
UndeclaredKeyRejected ==
  ( /\ ret.op = "validate"
    /\ ~AllKeysDeclared )
  => /\ ret.outcome # "ok"
     /\ AllRequiredPresent
          => \/ /\ ret.exc = "ValueError" /\ ret.outcome = "Unknown field"
                /\ ret.field = call.data[FirstUndeclared][1]
             \/ /\ ret.outcome \in {"Type mismatch", "Validation failed"}
                /\ \E k \in 1..(FirstUndeclared - 1) : ret.field = call.data[k][1]

\* an undeclared key rejected after a declared one passed its checks
UndeclaredAfterDeclaredReached ==
  /\ ret.op = "validate"
  /\ ret.outcome = "Unknown field"
  /\ ret.typeChecks >= 1
  /\ Len(call.schema.required) >= 1

\* the ids of the versions in an enrichment's version list
VersionIdsOf(enrichment_name) ==
  {enrichments[enrichment_name].versions[i].version_id :
     i \in DOMAIN enrichments[enrichment_name].versions}

\* the three cases of the claim, every version_id that is passed counting as
\* explicit, the empty string included
UnresolvableAsPassed(enrichment_name, version_id) ==
  \/ enrichment_name \notin Registered
  \/ /\ enrichment_name \in Registered
     /\ ~IsNone(version_id)
     /\ Unwrap(version_id) \notin VersionIdsOf(enrichment_name)
  \/ /\ enrichment_name \in Registered
     /\ IsNone(version_id)
     /\ enrichments[enrichment_name].versions = <<>>

\* C14 as stated: queue_job raises a not-found error and leaves the jobs and
\* the catalog unchanged whenever the enrichment name is not registered, the
\* version_id passed (the empty string included) is the id of no version of
\* the enrichment, or version_id is omitted and the enrichment has no versions.
QueueNotFoundForEveryUnknownId ==
  [][ret'.op = "queue_job" =>
     \A n \in Names, d \in JobInputs, v \in VersionIdArgs :
       (UnresolvableAsPassed(n, v) /\ queue_job("test_dataset", n, d, v))
       => /\ ret'.exc = "ValueError"
          /\ ret'.outcome \in {"Enrichment not found", "Version not found",
                               "No versions found"}
          /\ jobs' = jobs
          /\ nextJob' = nextJob
          /\ enrichments' = enrichments]_vars

\* the three cases in which queue_job cannot resolve a version (an empty
\* version_id is read as an omitted one)
Unresolvable(enrichment_name, version_id) ==
  \/ enrichment_name \notin Registered
  \/ /\ enrichment_name \in Registered
     /\ version_id \notin {None, Some(<<>>)}
     /\ Unwrap(version_id) \notin VersionIdsOf(enrichment_name)
  \/ /\ enrichment_name \in Registered
     /\ version_id \in {None, Some(<<>>)}
     /\ enrichments[enrichment_name].versions = <<>>

\* C14, amended: queue_job raises a not-found error and leaves the jobs and
\* the catalog unchanged whenever the enrichment name is not registered, the
\* non-empty version_id passed is the id of no version of the enrichment, or
\* version_id is omitted or the empty string and the enrichment has no
\* versions.
QueueNotFoundCreatesNothing ==
  [][ret'.op = "queue_job" =>
     \A n \in Names, d \in JobInputs, v \in VersionIdArgs :
       (Unresolvable(n, v) /\ queue_job("test_dataset", n, d, v))
       => /\ ret'.exc = "ValueError"
          /\ ret'.outcome \in {"Enrichment not found", "Version not found",
                               "No versions found"}
          /\ jobs' = jobs
          /\ nextJob' = nextJob
          /\ enrichments' = enrichments]_vars

\* an explicit id that no version of a non-empty version list carries
UnknownVersionRejectedReached ==
  /\ ret.op = "queue_job"
  /\ ret.outcome = "Version not found"
  /\ "test" \in Registered
  /\ Len(enrichments["test"].versions) >= 1

\* C15: update_job with a job_id that matches no job returns None without
\* raising and leaves every job, the catalog and the feature sets unchanged,
\* whatever status, result and error are passed.
UpdateUnknownJobNoOp ==
  [][ret'.op = "update_job" =>
     \A j \in JobIdArgs, s \in StatusArgs, r \in ResultArgs, e \in ErrorArgs :
       ((\A i \in DOMAIN jobs : jobs[i].job_id # j) /\ update_job(j, s, r, e))
       => /\ ret'.exc = "none"
          /\ ret'.job = 0
          /\ jobs' = jobs
          /\ enrichments' = enrichments
          /\ features' = features]_vars

\* update_job has returned None while a job was in the store
UnknownJobWithJobsReached ==
  /\ ret.op = "update_job"
  /\ ret.exc = "none"
  /\ ret.job = 0
  /\ Len(jobs) >= 1

\* the payload recorded for a (dataset, enrichment) pair, None when there is none
Recorded(feature_sets, dataset_id, enrichment_name) ==
  IF dataset_id \in DOMAIN feature_sets
  THEN FeatureSetGet(feature_sets[dataset_id], enrichment_name)
  ELSE None

\* C16: every add_features call succeeds, the first one for a dataset
\* included; afterwards the payload recorded for its (dataset, enrichment)
\* pair is exactly the payload of the call, and the payloads recorded for the
\* other pairs are unchanged.
FeatureOverlay ==
  [][ret'.op = "add_features" =>
     \A d \in Datasets, n \in Names, p \in FeaturePayloads :
       add_features(d, n, p)
       => /\ ret'.exc = "none"
          /\ Recorded(features', d, n) = Some(p)
          /\ \A d2 \in Datasets, n2 \in Names :
               <<d2, n2>> # <<d, n>>
               => Recorded(features', d2, n2) = Recorded(features, d2, n2)]_vars

\* C17: update_job on an existing job with only an error message stores the
\* message and leaves every other field of that job (status, started_at,
\* completed_at and result among them) and every other job unchanged.
ErrorOnlyKeepsStatus ==
  [][ret'.op = "update_job" =>
     \A j \in JobIdArgs, e \in ErrorArgs \ {None} :
       ((\E i \in DOMAIN jobs : jobs[i].job_id = j) /\ update_job(j, None, None, e))
       => /\ ret'.exc = "none"
          /\ \E i \in DOMAIN jobs :
               /\ jobs[i].job_id = j
               /\ jobs' = [jobs EXCEPT ![i] = [jobs[i] EXCEPT !.error = e]]]_vars

\* a completed job that holds both its result and an error message
ErrorOnCompletedReached ==
  /\ ret.op = "update_job"
  /\ ret.exc = "none"
  /\ \E i \in DOMAIN jobs :
       /\ jobs[i].status = "completed"
       /\ ~IsNone(jobs[i].result)
       /\ ~IsNone(jobs[i].error)
       /\ ~IsNone(jobs[i].completed_at)

\* C18: the version update_job looks up for a job just queued (the one whose
\* output_schema validates its result) is the version whose input_schema
\* validated the job's input_data.
OutputUsesQueuedVersion ==
  [][(ret'.op = "queue_job" /\ ret'.exc = "none") =>
     \A n \in Names, d \in JobInputs, v \in VersionIdArgs :
       queue_job("test_dataset", n, d, v)
       => get_version(enrichments'[n], jobs'[Len(jobs')].enrichment_version)
            = ResolveVersion(enrichments[n], v)]_vars

\* C19: every job's enrichment is registered and its enrichment_version is
\* the id of a version in the catalog, and every stored result passes the
\* validation of the output schema of the version get_version returns for
\* the job.
StoredResultsValidated ==
  \A i \in DOMAIN jobs :
    /\ jobs[i].enrichment_name \in Registered
    /\ jobs[i].enrichment_version \in VersionIdsOf(jobs[i].enrichment_name)
    /\ ~IsNone(jobs[i].result)
       => \E k \in DOMAIN enrichments[jobs[i].enrichment_name].versions :
            LET version == enrichments[jobs[i].enrichment_name].versions[k]
            IN /\ version.version_id = jobs[i].enrichment_version
               /\ \A h \in 1..(k - 1) :
                    enrichments[jobs[i].enrichment_name].versions[h].version_id
                      # jobs[i].enrichment_version
               /\ Validate(version.output_schema, Unwrap(jobs[i].result)).outcome = "ok"

\* a result stored by update_job
ResultStoredReached ==
  /\ ret.op = "update_job"
  /\ ret.exc = "none"
  /\ \E i \in DOMAIN jobs : ~IsNone(jobs[i].result) /\ jobs[i].status = "pending"

\* the fields of a job that are fixed when it is queued
Identity(job) ==
  <<job.job_id, job.dataset_id, job.enrichment_name, job.enrichment_version,
    job.input_data, job.created_at>>

\* C20: no step removes a job or changes the job_id, dataset_id,
\* enrichment_name, enrichment_version, input_data or created_at of a job in
\* the store, versions appended later included, and the job_ids in the store
\* are pairwise different.
JobIdentityFrozen ==
  /\ [](\A i, k \in DOMAIN jobs : jobs[i].job_id = jobs[k].job_id => i = k)
  /\ [][\A i \in DOMAIN jobs :
          /\ i \in DOMAIN jobs'
          /\ Identity(jobs'[i]) = Identity(jobs[i])]_vars

\* a job updated after a version with another id was appended to its enrichment
UpdatedAfterLaterVersionReached ==
  /\ ret.op = "update_job"
  /\ "test" \in Registered
  /\ Len(enrichments["test"].versions) = 2
  /\ Len(jobs) = 1
  /\ jobs[1].status # "pending"
  /\ jobs[1].enrichment_version = enrichments["test"].versions[1].version_id
  /\ jobs[1].enrichment_version # enrichments["test"].versions[2].version_id

\* C21: when register_enrichment calls of several callers interleave between
\* the membership check and the insertion, no two callers both hold a
\* successful registration of the same name, and no step replaces the
\* definition stored under a registered name.
RegistrationAtomic ==
  /\ [](\A c1, c2 \in Callers :
          (/\ callers[c1].outcome = "ok"
           /\ callers[c2].outcome = "ok"
           /\ callers[c1].name = callers[c2].name) => c1 = c2)
  /\ [][\A n \in Registered :
          n \in DOMAIN enrichments' /\ enrichments'[n] = enrichments[n]]_vars

====
